---- MODULE Spec2Model ----
(***************************************************************************)
(* Model of customs_components/ha-mitt-sev/sensor.py: the SEVData client   *)
(* (token login, authenticated POST, throttled refresh and fold of the     *)
(* three endpoint responses into the table self.data) as called by the     *)
(* SevSensor entities that share one SEVData instance.                     *)
(*                                                                         *)
(* One action is the code that runs between two suspension points          *)
(* (awaits) of one sensor's update task.  Time is counted in minutes.      *)
(***************************************************************************)
EXTENDS Integers, Sequences, FiniteSets, TLC

(***************************************************************************)
(* Bounds                                                                  *)
(***************************************************************************)
TickStep == 15
MaxNow == 45
MaxReadings == 2
MaxStamp == 2
MaxReading == 2
\* how far the clock may advance between two successive reads of it
MaxLag == 1

(***************************************************************************)
(* Program constants and values                                            *)
(***************************************************************************)
MIN_TIME_BETWEEN_UPDATES == 30

METERS == {"m1", "m2"}

\* the keys of the response dict, in insertion (iteration) order
DATA_TYPES == <<"kwh", "co2", "cost">>

\* the sensors sharing one SEVData instance ("rest")
Sensors == {"s1", "s2"}

\* self.meter_id and self._sensor_type of each sensor
SensorMeter(s) == IF s = "s1" THEN "m1" ELSE "m2"
SensorType(s) == IF s = "s1" THEN "kwh" ELSE "cost_today"

\* SENSOR_TYPES[sensor_type]['icon']
SensorIcon(sensor_type) ==
    CASE sensor_type \in {"kwh", "kwh_today", "kwh_total"} -> "mdi:home-lightning-bolt"
      [] sensor_type \in {"co2", "co2_today"} -> "mdi:molecule-co2"
      [] OTHER -> "mdi:circle-multiple"

MinutesPerDay == 1440

\* Python None for optional values held in records; a present value v is Some(v)
None == [none |-> TRUE]
Some(v) == [none |-> FALSE, val |-> v]

\* self.token = None
NoToken == "None"
\* token strings a login body can decode to (the empty body included)
Tokens == {"", "jwt1", "jwt2"}

\* throttle[1] = None: the method was never called
Never == -1

\* a test for the empty string only, which takes None for a token
FalsyEmptyOnly(tok) == tok = ""

\* Python truthiness of self.token: None and "" are falsy
Falsy(tok) == tok = NoToken \/ tok = ""

(***************************************************************************)
(* Readings, meter entries and response bodies                             *)
(***************************************************************************)
Stamps == 1..MaxStamp
Values == 1..MaxReading

\* one element of meter["readings"]; cumulative_value is optional
Reading(t, v) == [time_stamp |-> t, reading |-> v, cumulative_value |-> 10 * t + v]
ReadingNoCum(t, v) == [time_stamp |-> t, reading |-> v]

Readings ==
    {Reading(t, v) : t \in Stamps, v \in Values}
        \cup {ReadingNoCum(t, v) : t \in Stamps, v \in Values}

ReadingLists == UNION {[1..n -> Readings] : n \in 0..MaxReadings}

Entry(m, rs) == [meter_id |-> m, readings |-> rs]

\* bodies with one meter entry, every reading list
RichBodies == {<<Entry(m, rs)>> : m \in METERS, rs \in ReadingLists}

\* the bodies the endpoints answer with in the process model
BodyBoth == <<Entry("m1", <<Reading(1, 1), Reading(2, 2)>>), Entry("m2", <<Reading(2, 1)>>)>>
BodyM1 == <<Entry("m1", <<Reading(2, 2), Reading(1, 1)>>)>>
BodyEmptyReadings == <<Entry("m2", <<>>)>>
Bodies == {BodyBoth, BodyM1, BodyEmptyReadings}

(***************************************************************************)
(* The fold of async_update                                                *)
(***************************************************************************)
EmptyDict == [x \in {} |-> None]

Cell(t, v) == [time |-> t, value |-> v]

\* d[k] = v on a dict d
Put(d, k, v) == (k :> v) @@ d

\* data[meter_id][key] = cell on a defaultdict(dict)
SetCell(tbl, m, key, cell) ==
    LET row == IF m \in DOMAIN tbl THEN tbl[m] ELSE EmptyDict
    IN  Put(tbl, m, Put(row, key, cell))

\* sum(r["reading"] for r in meter["readings"])
RECURSIVE value_sum(_)
value_sum(rs) ==
    IF rs = <<>> THEN 0 ELSE Head(rs)["reading"] + value_sum(Tail(rs))

\* the fold's running result: the local table, or the exception that ended it
Folded(tbl) == [raised |-> "none", tbl |-> tbl]
FoldRaised(e) == [raised |-> e, tbl |-> EmptyDict]

\* the entry folded with the first element of the list where the code takes
\* the final one
FoldEntryFirst(tbl, data_type, meter) ==
    LET rs == meter["readings"]
        meter_id == meter["meter_id"]
    IN  IF rs = <<>> THEN FoldRaised("IndexError")
        ELSE LET last == rs[1]
                 t1 == SetCell(tbl, meter_id, data_type,
                               Cell(last["time_stamp"], last["reading"]))
                 t2 == SetCell(t1, meter_id, data_type \o "_today",
                               Cell(last["time_stamp"], value_sum(rs)))
             IN  IF data_type = "kwh"
                 THEN IF "cumulative_value" \in DOMAIN last
                      THEN Folded(SetCell(t2, meter_id, data_type \o "_total",
                                  Cell(last["time_stamp"], last["cumulative_value"])))
                      ELSE FoldRaised("KeyError")
                 ELSE Folded(t2)

\* the entry folded with the element of greatest timestamp (the list sorted
\* first) where the code takes the final one
FoldEntryLatest(tbl, data_type, meter) ==
    LET rs == meter["readings"]
        meter_id == meter["meter_id"]
    IN  IF rs = <<>> THEN FoldRaised("IndexError")
        ELSE LET i == CHOOSE j \in 1..Len(rs) :
                          \A n \in 1..Len(rs) :
                              \/ rs[n]["time_stamp"] < rs[j]["time_stamp"]
                              \/ rs[n]["time_stamp"] = rs[j]["time_stamp"] /\ n <= j
                 last == rs[i]
                 t1 == SetCell(tbl, meter_id, data_type,
                               Cell(last["time_stamp"], last["reading"]))
                 t2 == SetCell(t1, meter_id, data_type \o "_today",
                               Cell(last["time_stamp"], value_sum(rs)))
             IN  IF data_type = "kwh"
                 THEN IF "cumulative_value" \in DOMAIN last
                      THEN Folded(SetCell(t2, meter_id, data_type \o "_total",
                                  Cell(last["time_stamp"], last["cumulative_value"])))
                      ELSE FoldRaised("KeyError")
                 ELSE Folded(t2)

\* the body of "for meter in data_set" for one meter entry
FoldEntry(tbl, data_type, meter) ==
    LET rs == meter["readings"]
        meter_id == meter["meter_id"]
    IN  IF rs = <<>> THEN FoldRaised("IndexError")
        ELSE LET last == rs[Len(rs)]
                 t1 == SetCell(tbl, meter_id, data_type,
                               Cell(last["time_stamp"], last["reading"]))
                 t2 == SetCell(t1, meter_id, data_type \o "_today",
                               Cell(last["time_stamp"], value_sum(rs)))
             IN  IF data_type = "kwh"
                 THEN IF "cumulative_value" \in DOMAIN last
                      THEN Folded(SetCell(t2, meter_id, data_type \o "_total",
                                  Cell(last["time_stamp"], last["cumulative_value"])))
                      ELSE FoldRaised("KeyError")
                 ELSE Folded(t2)

RECURSIVE FoldDataSet(_, _, _)
FoldDataSet(acc, data_type, data_set) ==
    IF acc.raised # "none" \/ data_set = <<>> THEN acc
    ELSE FoldDataSet(FoldEntry(acc.tbl, data_type, Head(data_set)),
                     data_type, Tail(data_set))

\* "if data_set:" is false for None and for an empty list
Truthy(r) == r # None /\ r.val # <<>>

RECURSIVE FoldFrom(_, _, _)
FoldFrom(acc, response, i) ==
    IF i > Len(DATA_TYPES) \/ acc.raised # "none" THEN acc
    ELSE LET data_type == DATA_TYPES[i]
             data_set == response[data_type]
         IN  FoldFrom(IF Truthy(data_set)
                      THEN FoldDataSet(acc, data_type, data_set.val)
                      ELSE acc,
                      response, i + 1)

\* the fold merging into the table held before (no fresh defaultdict)
FoldMerge(self_data, response) ==
    FoldFrom(Folded(IF self_data = None THEN EmptyDict ELSE self_data.val), response, 1)

\* the fold keeping the table held before when this cycle yields nothing
FoldKeepOnEmpty(self_data, response) ==
    LET f == FoldFrom(Folded(EmptyDict), response, 1)
    IN  IF f.raised = "none" /\ DOMAIN f.tbl = {} /\ self_data # None
        THEN Folded(self_data.val)
        ELSE f

\* the fold starting from an entry for every tracked meter
FoldPrefilled(self_data, response) ==
    FoldFrom(Folded([m \in METERS |-> EmptyDict]), response, 1)

\* data = defaultdict(dict), then the loop over response.keys(); the table
\* self_data held before is not read
Fold(self_data, response) == FoldFrom(Folded(EmptyDict), response, 1)

(***************************************************************************)
(* State                                                                   *)
(***************************************************************************)
VARIABLES
    now,        \* the clock, in minutes
    throttle,   \* Throttle's throttle[1]: time of the last call let through
    token,      \* self.token
    data,       \* self.data: None or Some(table)
    pc,         \* where each sensor's update task stands
    api,        \* the endpoint the task's current async_post is for
    response,   \* the task's local dict "response"
    exc,        \* the exception that ended the task, if any
    window,     \* the task's locals date_from and date_to
    folded,     \* the table the last completed fold assigned to self.data
    sensor      \* _state, the 'date' attribute and _icon of each sensor

vars == <<now, throttle, token, data, pc, api, response, exc, window, folded, sensor>>

NoResponse == [k \in {"kwh", "co2", "cost"} |-> None]
NoExc == [type |-> "none", in |-> "none"]
Exc(t, f) == [type |-> t, in |-> f]

Resting == {"idle", "done", "raised", "throttled"}

\* SevSensor.__init__: no state, no 'date' attribute, no icon
NewSensor == [state |-> None, date |-> None, icon |-> None]

(***************************************************************************)
(* The window of async_update                                              *)
(***************************************************************************)
\* datetime.today() when the model starts: 23:59 of day 0, in minutes
ClockStart == 1439

\* datetime.today() read at model time t, as <<day, minute of the day>>
Today(t) == <<(ClockStart + t) \div MinutesPerDay, (ClockStart + t) % MinutesPerDay>>

\* strftime('%Y-%m-%dT00:00:00') and strftime('%Y-%m-%dT%H:%M:%S')
StartOfDay(d) == <<d[1], 0>>
Moment(d) == d

\* date_from and date_to, each from its own datetime.today(): the clock
\* has advanced by lag between the two reads
Window(t, lag) == [date_from |-> StartOfDay(Today(t)), date_to |-> Moment(Today(t + lag))]

(***************************************************************************)
(* SevSensor.async_update after rest.async_update() has returned           *)
(***************************************************************************)
\* "if not self.rest.data": None and an empty table are falsy
DataTruthy(d) == d # None /\ DOMAIN d.val # {}

\* wu.data[meter_id] on the defaultdict(dict): a missing key is inserted
\* with an empty dict
Touch(tbl, m) == IF m \in DOMAIN tbl THEN tbl ELSE Put(tbl, m, EmptyDict)

\* wu.data[meter_id][sensor_type][field], None when it raises KeyError
Lookup(tbl, m, key, field) ==
    IF m \in DOMAIN tbl /\ key \in DOMAIN tbl[m] THEN Some(tbl[m][key][field]) ELSE None

\* the sensor keeping its former state where the cell is absent
SensorUpdateKeepState(sen, d, s) ==
    IF ~DataTruthy(d) THEN sen
    ELSE LET value == Lookup(d.val, SensorMeter(s), SensorType(s), "value")
             time == Lookup(d.val, SensorMeter(s), SensorType(s), "time")
         IN  [state |-> IF value = None THEN sen.state ELSE value,
              date |-> IF time = None THEN sen.date ELSE time,
              icon |-> Some(SensorIcon(SensorType(s)))]

\* the sensor without the test "if not self.rest.data": every cell of a
\* None or empty table is absent
SensorUpdateNoGuard(sen, d, s) ==
    LET tbl == IF d = None THEN EmptyDict ELSE d.val
        value == Lookup(tbl, SensorMeter(s), SensorType(s), "value")
        time == Lookup(tbl, SensorMeter(s), SensorType(s), "time")
    IN  [state |-> value,
         date |-> IF time = None THEN sen.date ELSE time,
         icon |-> Some(SensorIcon(SensorType(s)))]

\* the fields of sensor s after lines 329-338 have run on the table d
SensorUpdate(sen, d, s) ==
    IF ~DataTruthy(d) THEN sen
    ELSE LET value == Lookup(d.val, SensorMeter(s), SensorType(s), "value")
             time == Lookup(d.val, SensorMeter(s), SensorType(s), "time")
         IN  [state |-> value,
              date |-> IF time = None THEN sen.date ELSE time,
              icon |-> Some(SensorIcon(SensorType(s)))]

\* self.rest.data after lines 329-338 have run for sensor s on the table d
TableAfterRead(d, s) ==
    IF ~DataTruthy(d) THEN d ELSE Some(Touch(d.val, SensorMeter(s)))

\* the rest of SevSensor.async_update once the refresh has returned
Read(s, d) ==
    /\ sensor' = [sensor EXCEPT ![s] = SensorUpdate(sensor[s], d, s)]
    /\ data' = TableAfterRead(d, s)

Init ==
    /\ now = 0
    /\ throttle = Never
    /\ token = NoToken
    /\ data = None
    /\ pc = [s \in Sensors |-> "idle"]
    /\ api = [s \in Sensors |-> "kwh"]
    /\ response = [s \in Sensors |-> NoResponse]
    /\ exc = [s \in Sensors |-> NoExc]
    /\ window = [s \in Sensors |-> None]
    /\ folded = None
    /\ sensor = [s \in Sensors |-> NewSensor]

(***************************************************************************)
(* SEVData.async_update behind @Throttle, and SEVData.async_post           *)
(***************************************************************************)
\* the throttle with an interval of 30 seconds (half a minute)
ThrottledSeconds(last, t) == ~(last = Never \/ 2 * (t - last) > 1)

\* the throttle letting through a call made exactly min_time after the last
ThrottledInclusive(last, t) == ~(last = Never \/ t - last >= MIN_TIME_BETWEEN_UPDATES)

\* Throttle.wrapper: the method runs when it never ran, or when more than
\* min_time passed since the last call that was let through
Throttled(last, t) == ~(last = Never \/ t - last > MIN_TIME_BETWEEN_UPDATES)

NextApi(k) == IF k = "kwh" THEN "co2" ELSE "cost"

\* the refresh assigning self.data after every async_post, not only after
\* the last one
ReturnPartial(s, k, result, tok) ==
    LET resp == [response[s] EXCEPT ![k] = result]
        f == Fold(data, resp)
    IN  /\ response' = [response EXCEPT ![s] = resp]
        /\ IF f.raised # "none"
           THEN /\ pc' = [pc EXCEPT ![s] = "raised"]
                /\ exc' = [exc EXCEPT ![s] = Exc(f.raised, "async_update")]
                /\ window' = [window EXCEPT ![s] = None]
                /\ UNCHANGED <<data, folded, sensor, api>>
           ELSE IF k = "cost"
                THEN /\ pc' = [pc EXCEPT ![s] = "done"]
                     /\ window' = [window EXCEPT ![s] = None]
                     /\ folded' = Some(f.tbl)
                     /\ Read(s, Some(f.tbl))
                     /\ UNCHANGED <<exc, api>>
                ELSE /\ api' = [api EXCEPT ![s] = NextApi(k)]
                     /\ pc' = [pc EXCEPT ![s] = IF Falsy(tok) THEN "login" ELSE "post"]
                     /\ folded' = Some(f.tbl)
                     /\ data' = Some(f.tbl)
                     /\ UNCHANGED <<exc, sensor, window>>

\* async_post returned result for endpoint k while self.token is tok: the
\* refresh stores it and goes on to the next async_post (which logs in when
\* the token is falsy, and posts otherwise) or, after the last one, folds
\* and assigns self.data
Return(s, k, result, tok) ==
    LET resp == [response[s] EXCEPT ![k] = result]
        f == Fold(data, resp)
    IN  /\ response' = [response EXCEPT ![s] = resp]
        /\ IF k = "cost"
           THEN /\ api' = api
                /\ window' = [window EXCEPT ![s] = None]
                /\ IF f.raised # "none"
                   THEN /\ pc' = [pc EXCEPT ![s] = "raised"]
                        /\ exc' = [exc EXCEPT ![s] = Exc(f.raised, "async_update")]
                        /\ UNCHANGED <<data, folded, sensor>>
                   ELSE /\ pc' = [pc EXCEPT ![s] = "done"]
                        /\ folded' = Some(f.tbl)
                        /\ Read(s, Some(f.tbl))
                        /\ exc' = exc
           ELSE /\ api' = [api EXCEPT ![s] = NextApi(k)]
                /\ pc' = [pc EXCEPT ![s] = IF Falsy(tok) THEN "login" ELSE "post"]
                /\ UNCHANGED <<data, exc, folded, sensor, window>>

Raise(s, type, in) ==
    /\ pc' = [pc EXCEPT ![s] = "raised"]
    /\ exc' = [exc EXCEPT ![s] = Exc(type, in)]
    /\ window' = [window EXCEPT ![s] = None]
    /\ UNCHANGED <<data, api, response, folded, sensor>>

\* SevSensor.async_update calls self.rest.async_update(); a throttled call
\* returns None at once and the sensor goes on to read the table
Call(s, lag) ==
    /\ pc[s] \in Resting
    /\ IF Throttled(throttle, now)
       THEN /\ lag = 0
            /\ pc' = [pc EXCEPT ![s] = "throttled"]
            /\ Read(s, data)
            /\ UNCHANGED <<throttle, token, api, response, exc, window>>
       ELSE /\ throttle' = now
            /\ window' = [window EXCEPT ![s] = Window(now, lag)]
            /\ api' = [api EXCEPT ![s] = "kwh"]
            /\ response' = [response EXCEPT ![s] = NoResponse]
            /\ exc' = [exc EXCEPT ![s] = NoExc]
            /\ pc' = [pc EXCEPT ![s] = IF Falsy(token) THEN "login" ELSE "post"]
            /\ UNCHANGED <<token, data, sensor>>
    /\ UNCHANGED <<now, folded>>

RequestOutcomes == {"timeout", "client_error", "no_response", "status_fail", "status_ok"}

\* async_get_token: the login POST is answered, fails or times out
LoginResponse(s, outcome) ==
    /\ pc[s] = "login"
    /\ CASE outcome \in {"timeout", "client_error"} ->
              \* the except clause logs; sev_data was never bound
              Raise(s, "UnboundLocalError", "async_get_token")
         [] outcome \in {"no_response", "status_fail"} ->
              \* return None; async_post then tests self.token again
              IF Falsy(token)
              THEN Return(s, api[s], None, token)
              ELSE /\ pc' = [pc EXCEPT ![s] = "post"]
                   /\ UNCHANGED <<data, api, response, exc, folded, sensor, window>>
         [] outcome = "status_ok" ->
              /\ pc' = [pc EXCEPT ![s] = "login_body"]
              /\ UNCHANGED <<data, api, response, exc, folded, sensor, window>>
    /\ UNCHANGED <<now, throttle, token>>

\* async_get_token: the body of the login response has been read
LoginBody(s, outcome) ==
    /\ pc[s] = "login_body"
    /\ CASE outcome = "read_error" ->
              Raise(s, "ClientError", "async_get_token") /\ token' = token
         [] outcome = "decode_error" ->
              Raise(s, "ValueError", "async_get_token") /\ token' = token
         [] outcome \in Tokens ->
              /\ token' = outcome
              /\ IF Falsy(outcome)
                 THEN Return(s, api[s], None, outcome)
                 ELSE /\ pc' = [pc EXCEPT ![s] = "post"]
                      /\ UNCHANGED <<data, api, response, exc, folded, sensor, window>>
    /\ UNCHANGED <<now, throttle>>

\* async_post dropping the token when the endpoint answers with a failure
PostResponseClears(s, outcome) ==
    /\ pc[s] = "post"
    /\ CASE outcome \in {"timeout", "client_error"} ->
              Raise(s, "UnboundLocalError", "async_post") /\ token' = token
         [] outcome \in {"no_response", "status_fail"} ->
              Return(s, api[s], None, NoToken) /\ token' = NoToken
         [] outcome = "status_ok" ->
              /\ pc' = [pc EXCEPT ![s] = "post_body"]
              /\ token' = token
              /\ UNCHANGED <<data, api, response, exc, folded, sensor, window>>
    /\ UNCHANGED <<now, throttle>>

\* async_post: the endpoint POST is answered, fails or times out
PostResponse(s, outcome) ==
    /\ pc[s] = "post"
    /\ CASE outcome \in {"timeout", "client_error"} ->
              Raise(s, "UnboundLocalError", "async_post")
         [] outcome \in {"no_response", "status_fail"} ->
              Return(s, api[s], None, token)
         [] outcome = "status_ok" ->
              /\ pc' = [pc EXCEPT ![s] = "post_body"]
              /\ UNCHANGED <<data, api, response, exc, folded, sensor, window>>
    /\ UNCHANGED <<now, throttle, token>>

\* async_post: the body of the endpoint response has been read
PostBody(s, outcome, bodies) ==
    /\ pc[s] = "post_body"
    /\ CASE outcome = "read_error" -> Raise(s, "ClientError", "async_post")
         [] outcome = "malformed" -> Raise(s, "ValueError", "async_post")
         [] outcome = "json" ->
              \E body \in bodies : Return(s, api[s], Some(body), token)
    /\ UNCHANGED <<now, throttle, token>>

BodyOutcomes == {"read_error", "malformed", "json"}
TokenOutcomes == {"read_error", "decode_error"} \cup Tokens

\* Each request is under async_timeout.timeout(10): no request is still
\* pending TickStep minutes later.  Reading a body is under no timeout.
Tick ==
    /\ now + TickStep <= MaxNow
    /\ \A s \in Sensors : pc[s] \notin {"login", "post"}
    /\ now' = now + TickStep
    /\ UNCHANGED <<throttle, token, data, pc, api, response, exc, window, folded, sensor>>

Next ==
    \/ \E s \in Sensors : Call(s, 0)
    \/ \E s \in Sensors, o \in RequestOutcomes : LoginResponse(s, o)
    \/ \E s \in Sensors, o \in TokenOutcomes : LoginBody(s, o)
    \/ \E s \in Sensors, o \in RequestOutcomes : PostResponse(s, o)
    \/ \E s \in Sensors, o \in BodyOutcomes : PostBody(s, o, Bodies)
    \/ Tick

Spec == Init /\ [][Next]_vars

TypeOK ==
    /\ now \in 0..MaxNow
    /\ throttle \in {Never} \cup 0..MaxNow
    /\ token \in {NoToken} \cup Tokens
    /\ pc \in [Sensors -> Resting \cup {"login", "login_body", "post", "post_body"}]
    /\ api \in [Sensors -> {"kwh", "co2", "cost"}]

(***************************************************************************)
(* The fold on its own: one task has both first responses in hand and is   *)
(* reading the body of the last endpoint; the responses are drawn from     *)
(* every reading list within the bounds.                                   *)
(***************************************************************************)
SmallResponses == {None} \cup {Some(b) : b \in Bodies}

PriorTable == Fold(None, [k \in {"kwh", "co2", "cost"} |-> Some(BodyBoth)]).tbl

\* the two first responses: one of them drawn from the rich bodies, or none
FoldResponse(rich, x, y, b) ==
    CASE rich = "kwh" -> [kwh |-> Some(b), co2 |-> y, cost |-> None]
      [] rich = "co2" -> [kwh |-> x, co2 |-> Some(b), cost |-> None]
      [] OTHER -> [kwh |-> x, co2 |-> y, cost |-> None]

InitFold ==
    /\ now = 0
    /\ throttle = 0
    /\ token = "jwt1"
    /\ data \in {None, Some(PriorTable)}
    /\ pc = [s \in Sensors |-> IF s = "s1" THEN "post_body" ELSE "idle"]
    /\ api = [s \in Sensors |-> IF s = "s1" THEN "cost" ELSE "kwh"]
    /\ \E rich \in {"kwh", "co2", "none"}, x \in SmallResponses, y \in SmallResponses :
          \E b \in RichBodies :
              response = [s \in Sensors |->
                             IF s = "s1" THEN FoldResponse(rich, x, y, b) ELSE NoResponse]
    /\ exc = [s \in Sensors |-> NoExc]
    /\ window = [s \in Sensors |-> IF s = "s1" THEN Window(0, 0) ELSE None]
    /\ folded = data
    /\ sensor = [s \in Sensors |->
                     IF s = "s1" THEN SensorUpdate(NewSensor, data, s) ELSE NewSensor]

NextFold ==
    \E s \in Sensors :
        PostBody(s, "json",
                 IF response[s]["kwh"] \in SmallResponses /\ response[s]["co2"] \in SmallResponses
                 THEN RichBodies \cup Bodies
                 ELSE Bodies)

SpecFold == InitFold /\ [][NextFold]_vars

(***************************************************************************)
(* The window on its own: the clock may advance between the two reads of   *)
(* datetime.today(); every login is rejected or times out, so that the     *)
(* refreshes end and new ones start.                                       *)
(***************************************************************************)
NextWindow ==
    \/ \E s \in Sensors, lag \in 0..MaxLag : Call(s, lag)
    \/ \E s \in Sensors, o \in {"status_fail", "timeout"} : LoginResponse(s, o)
    \/ Tick

SpecWindow == Init /\ [][NextWindow]_vars

(***************************************************************************)
(* Vocabulary of the properties                                            *)
(***************************************************************************)
InFlight == {"login", "login_body", "post", "post_body"}
DataTypes == {"kwh", "co2", "cost"}

\* the step is a call of sensor s to rest.async_update() that changes state
CallStep(s) == pc[s] \in Resting /\ pc'[s] # pc[s]

\* the step sends a request of the given kind ("login" or "post") for task s
Issues(s, kind) == pc'[s] = kind /\ <<pc[s], api[s]>> # <<pc'[s], api'[s]>>

\* the step ends the refresh of task s: fold done and self.data assigned
Completes(s) == pc[s] \in InFlight /\ pc'[s] = "done"

\* the step ends the refresh of task s, by completion or by an exception
Ends(s) == pc[s] \in InFlight /\ pc'[s] \in {"done", "raised"}

\* the metric keys an endpoint contributes
KeysOf(k) == {k, k \o "_today", k \o "_total"}

EntriesOf(r) == IF r = None THEN {} ELSE {r.val[i] : i \in 1..Len(r.val)}
MetersOf(r) == {e["meter_id"] : e \in EntriesOf(r)}

\* the arithmetic sum of the readings, taken over the positions of the list
RECURSIVE SumUpTo(_, _)
SumUpTo(rs, n) == IF n = 0 THEN 0 ELSE rs[n]["reading"] + SumUpTo(rs, n - 1)
ArithmeticSum(rs) == SumUpTo(rs, Len(rs))

MaxStampOf(rs) ==
    CHOOSE t \in {rs[i]["time_stamp"] : i \in 1..Len(rs)} :
        \A i \in 1..Len(rs) : rs[i]["time_stamp"] <= t

Chronological(rs) ==
    \A i \in 1..Len(rs), j \in 1..Len(rs) :
        i < j => rs[i]["time_stamp"] <= rs[j]["time_stamp"]

HasKey(tbl, m, key) == m \in DOMAIN tbl /\ key \in DOMAIN tbl[m]

\* the cells of a table: (meter, key, {time, value})
CellsOf(d) ==
    IF d = None THEN {}
    ELSE UNION {{<<m, key, d.val[m][key]>> : key \in DOMAIN d.val[m]} : m \in DOMAIN d.val}

\* the refresh called by sensor s returns to it in this step
Returns(s) == pc'[s] \in {"done", "throttled"} /\ (CallStep(s) \/ Completes(s))

(***************************************************************************)
(* C1: a call to async_update made less than 30 minutes after the last     *)
(* call that was let through is throttled: it sends no request (no login,  *)
(* no endpoint POST), leaves the token, the table the last fold assigned   *)
(* and every cell of self.data as they are, whichever sensor makes the     *)
(* call.                                                                   *)
(***************************************************************************)
C1_ThrottledCallDoesNothing ==
    [][\A s \in Sensors :
          (CallStep(s) /\ throttle # Never /\ now - throttle < 30)
              => /\ pc'[s] = "throttled"
                 /\ folded' = folded
                 /\ (data' = None) = (data = None)
                 /\ CellsOf(data') = CellsOf(data)
                 /\ token' = token
                 /\ throttle' = throttle
                 /\ \A r \in Sensors : ~Issues(r, "login") /\ ~Issues(r, "post")]_vars

\* a sensor was throttled 15 minutes after a refresh that filled the table
C1_Witness ==
    \E s \in Sensors :
        /\ pc[s] = "throttled"
        /\ throttle # Never
        /\ now - throttle = 15
        /\ data # None

(***************************************************************************)
(* C2: async_post never raises: whatever failure the request or the body   *)
(* meets, the only exceptions that end a refresh come from the fold of     *)
(* async_update, none from async_post or async_get_token.                  *)
(***************************************************************************)
C2_PostNeverRaises ==
    \A s \in Sensors :
        pc[s] = "raised" => exc[s]["in"] \notin {"async_post", "async_get_token"}

(***************************************************************************)
(* C3: a refresh in which exactly one endpoint call failed (timeout,       *)
(* transport error, status >= 300 or absent response) and the two others   *)
(* returned foldable bodies ends without raising, with the keys of the two *)
(* successful endpoints for every meter of their responses and with no key *)
(* of the failed endpoint.                                                 *)
(***************************************************************************)
OneFailedOthersFold(resp) ==
    /\ Cardinality({k \in DataTypes : resp[k] = None}) = 1
    /\ \A k \in DataTypes : resp[k] # None => resp[k].val # <<>>
    /\ Fold(None, resp).raised = "none"

\* the step is a failure while reading or parsing a body, which is not one
\* of the failure kinds of the request
BodyFailure(s) == pc[s] = "post_body" /\ pc'[s] = "raised"

KeysPresent(tbl, resp) ==
    \A k \in DataTypes :
        IF resp[k] = None
        THEN \A m \in DOMAIN tbl : KeysOf(k) \cap DOMAIN tbl[m] = {}
        ELSE \A m \in MetersOf(resp[k]) :
                 /\ HasKey(tbl, m, k)
                 /\ HasKey(tbl, m, k \o "_today")
                 /\ k = "kwh" => HasKey(tbl, m, "kwh_total")

C3_OneFailedEndpointTolerated ==
    [][\A s \in Sensors :
          (Ends(s) /\ ~BodyFailure(s) /\ OneFailedOthersFold(response'[s]))
              => /\ pc'[s] = "done"
                 /\ data' # None
                 /\ KeysPresent(data'.val, response'[s])]_vars

(***************************************************************************)
(* C4: when the fold completes, every meter entry with a non-empty reading *)
(* list in a successful response for k has table[meter][k] = {time and     *)
(* reading of the final element}, table[meter][k_today] = {same time, sum  *)
(* of the readings} and, for kwh only, table[meter][kwh_total] = {same     *)
(* time, cumulative_value of the final element}; co2 and cost get no       *)
(* *_total key.                                                            *)
(***************************************************************************)
EntryFolded(tbl, k, e) ==
    LET rs == e["readings"]
        m == e["meter_id"]
        last == rs[Len(rs)]
    IN  rs # <<>> =>
            /\ HasKey(tbl, m, k)
            /\ tbl[m][k] = [time |-> last["time_stamp"], value |-> last["reading"]]
            /\ HasKey(tbl, m, k \o "_today")
            /\ tbl[m][k \o "_today"] =
                   [time |-> last["time_stamp"], value |-> ArithmeticSum(rs)]
            /\ IF k = "kwh"
               THEN /\ HasKey(tbl, m, "kwh_total")
                    /\ tbl[m]["kwh_total"] =
                           [time |-> last["time_stamp"], value |-> last["cumulative_value"]]
               ELSE ~HasKey(tbl, m, k \o "_total")

C4_FoldWritesLastSumTotal ==
    [][\A s \in Sensors :
          Completes(s) =>
              \A k \in DataTypes : \A e \in EntriesOf(response'[s][k]) :
                  EntryFolded(data'.val, k, e)]_vars

\* a completed fold of a two-element list: the sum differs from the last
\* reading, and the cumulative value of the last element is in kwh_total
C4_Witness ==
    \E s \in Sensors : \E e \in EntriesOf(response[s]["kwh"]) :
        /\ pc[s] = "done"
        /\ data # None
        /\ Len(e["readings"]) = 2
        /\ HasKey(data.val, e["meter_id"], "kwh_total")
        /\ data.val[e["meter_id"]]["kwh_today"]["value"]
               > data.val[e["meter_id"]]["kwh"]["value"]
        /\ data.val[e["meter_id"]]["kwh_total"]["value"]
               = e["readings"][2]["cumulative_value"]
        /\ "cumulative_value" \in DOMAIN e["readings"][1]
        /\ e["readings"][1]["cumulative_value"] # e["readings"][2]["cumulative_value"]

(***************************************************************************)
(* C5: when the login is answered with a non-success status (or with no    *)
(* response object) while no token is cached, the token is still None      *)
(* afterwards and the next async_post of the refresh sends a login again;  *)
(* no endpoint request is ever sent while the token is None.               *)
(***************************************************************************)
\* the login request of task s is answered without success and without raising
LoginRejected(s) == pc[s] = "login" /\ pc'[s] \notin {"login", "login_body", "raised"}

AuthFails(s) ==
    \/ pc[s] = "login" /\ pc'[s] \notin {"login", "login_body"}
    \/ pc[s] = "login_body" /\ pc'[s] # "login_body" /\ token' \in {"None", ""}
    \/ pc[s] = "login_body" /\ pc'[s] = "raised"

C6_FailedAuthReturnsAbsent ==
    [][\A s \in Sensors :
          AuthFails(s)
              => /\ ~(pc'[s] = "raised" /\ exc'[s]["in"] # "async_update")
                 /\ ~(pc'[s] = "post" /\ api'[s] = api[s])
                 /\ response'[s][api[s]] = None]_vars

(***************************************************************************)
(* C7 as stated: a refresh in which all three calls return None leaves a   *)
(* table that existed before exactly as it was.                            *)
(***************************************************************************)
AllAbsent(resp) == \A k \in DataTypes : resp[k] = None

C7_EmptyRefreshKeepsTable ==
    [][\A s \in Sensors :
          (Completes(s) /\ AllAbsent(response'[s]) /\ data # None) => data' = data]_vars

(***************************************************************************)
(* C7 amended: a refresh in which all three calls return None replaces     *)
(* self.data by an empty table, whatever it held before.                   *)
(***************************************************************************)
C7_EmptyRefreshEmptiesTable ==
    [][\A s \in Sensors :
          (Completes(s) /\ AllAbsent(response'[s]))
              => (data' # None /\ DOMAIN data'.val = {})]_vars

\* the table is empty after an all-absent refresh of s, although the other
\* sensor had completed a refresh that filled it
C7_Witness ==
    \E s \in Sensors, r \in Sensors :
        /\ pc[s] = "done" /\ AllAbsent(response[s])
        /\ data # None /\ DOMAIN data.val = {}
        /\ r # s /\ pc[r] \in {"done", "throttled"}
        /\ \E k \in DataTypes : response[r][k] # None

(***************************************************************************)
(* C8: the table assigned by a completed refresh holds nothing of an       *)
(* endpoint whose call failed in this cycle: no meter has a key of that    *)
(* endpoint, also when an earlier cycle had written one.                   *)
(***************************************************************************)
C8_FailedEndpointLeavesGap ==
    [][\A s \in Sensors :
          Completes(s) =>
              \A k \in DataTypes :
                  response'[s][k] = None =>
                      \A m \in DOMAIN data'.val : KeysOf(k) \cap DOMAIN data'.val[m] = {}]_vars

\* the last refresh had no cost response and the table has no cost key,
\* while the refresh of the other sensor had folded a cost response
C8_Witness ==
    \E s \in Sensors, r \in Sensors :
        /\ r # s
        /\ pc[s] = "done" /\ response[s]["cost"] = None /\ response[s]["kwh"] # None
        /\ pc[r] \in {"done", "throttled"} /\ response[r]["cost"] # None
        /\ data = Some(Fold(None, response[s]).tbl)
        /\ \E m \in DOMAIN data.val : "kwh" \in DOMAIN data.val[m]
        /\ \A m \in DOMAIN data.val : "cost" \notin DOMAIN data.val[m]

(***************************************************************************)
(* C9 as stated: for every order of the reading list, *_today is the sum   *)
(* of the readings and the time and value under kwh/co2/cost are those of  *)
(* the reading with the greatest timestamp.                                *)
(***************************************************************************)
EntrySum(tbl, k, e) ==
    tbl[e["meter_id"]][k \o "_today"]["value"] = ArithmeticSum(e["readings"])

EntryLatest(tbl, k, e) ==
    LET rs == e["readings"]
        cell == tbl[e["meter_id"]][k]
    IN  /\ cell["time"] = MaxStampOf(rs)
        /\ \E i \in 1..Len(rs) :
               rs[i]["time_stamp"] = cell["time"] /\ rs[i]["reading"] = cell["value"]

C9_LastIsChronologicallyFinal ==
    [][\A s \in Sensors :
          Completes(s) =>
              \A k \in DataTypes : \A e \in EntriesOf(response'[s][k]) :
                  EntrySum(data'.val, k, e) /\ EntryLatest(data'.val, k, e)]_vars

(***************************************************************************)
(* C9 amended: for every order of the reading list, *_today is the sum of  *)
(* the readings; the time and value under kwh/co2/cost are those of the    *)
(* final element of the list as returned, which is the chronologically     *)
(* final reading when the list is in chronological order.                  *)
(***************************************************************************)
EntryFinalElement(tbl, k, e) ==
    LET rs == e["readings"]
        cell == tbl[e["meter_id"]][k]
    IN  /\ cell["time"] = rs[Len(rs)]["time_stamp"]
        /\ cell["value"] = rs[Len(rs)]["reading"]
        /\ Chronological(rs) => cell["time"] = MaxStampOf(rs)

C9_LastIsFinalElement ==
    [][\A s \in Sensors :
          Completes(s) =>
              \A k \in DataTypes : \A e \in EntriesOf(response'[s][k]) :
                  EntrySum(data'.val, k, e) /\ EntryFinalElement(data'.val, k, e)]_vars

\* a list returned out of order was folded: the table shows its final
\* element, which is not the latest reading
C9_Witness ==
    \E s \in Sensors : \E k \in DataTypes : \E e \in EntriesOf(response[s][k]) :
        /\ pc[s] = "done"
        /\ data # None
        /\ Len(e["readings"]) = 2
        /\ e["readings"][1]["time_stamp"] > e["readings"][2]["time_stamp"]
        /\ data.val[e["meter_id"]][k]["time"] = e["readings"][2]["time_stamp"]
        /\ data.val[e["meter_id"]][k \o "_today"]["value"]
               = e["readings"][1]["reading"] + e["readings"][2]["reading"]

(***************************************************************************)
(* C10: in the table assigned by a completed fold, a meter that is not in  *)
(* the response of an endpoint has none of that endpoint's keys, and a     *)
(* meter that is in none of the three responses has no entry at all.       *)
(***************************************************************************)
C10_AbsentMeterNotPopulated ==
    [][\A s \in Sensors :
          Completes(s) =>
              \A m \in METERS :
                  /\ \A k \in DataTypes :
                         m \notin MetersOf(response'[s][k])
                             => \A key \in KeysOf(k) : ~HasKey(folded'.val, m, key)
                  /\ (\A k \in DataTypes : m \notin MetersOf(response'[s][k]))
                         => m \notin DOMAIN folded'.val]_vars

\* a completed fold whose responses name one meter only: the table has an
\* entry for that meter and none for the other
C10_Witness ==
    \E s \in Sensors, m \in METERS, n \in METERS :
        /\ pc[s] = "done"
        /\ folded # None
        /\ m # n
        /\ \A k \in DataTypes : n \notin MetersOf(response[s][k])
        /\ m \in MetersOf(response[s]["kwh"]) /\ m \notin MetersOf(response[s]["co2"])
        /\ DOMAIN folded.val = {m}
        /\ "kwh" \in DOMAIN folded.val[m] /\ "co2" \notin DOMAIN folded.val[m]

(***************************************************************************)
(* C11: when the refresh returns to a sensor and the table is not empty    *)
(* but has no cell for the sensor's meter and metric, the update completes *)
(* with _state = None; a sensor that never read a cell (it has no 'date'   *)
(* attribute) has _state = None.                                           *)
(***************************************************************************)
\* the table sensor s reads in this step: the one the fold just assigned,
\* or the one in place when the call was throttled
Seen(s) == IF Completes(s) THEN folded' ELSE data

C11_AbsentCellReadsAsNone ==
    [][\A s \in Sensors :
          /\ (Returns(s) /\ Seen(s) # None /\ DOMAIN Seen(s).val # {}
                /\ ~HasKey(Seen(s).val, SensorMeter(s), SensorType(s)))
                => /\ pc'[s] # "raised"
                   /\ sensor'[s]["state"] = None
          /\ sensor'[s]["date"] = None => sensor'[s]["state"] = None]_vars

\* a sensor that had shown a value reports None: its cell is not in the
\* table any more
C11_Witness ==
    \E s \in Sensors :
        /\ pc[s] \in {"done", "throttled"}
        /\ data # None /\ DOMAIN data.val # {}
        /\ ~HasKey(data.val, SensorMeter(s), SensorType(s))
        /\ sensor[s]["date"] # None
        /\ sensor[s]["state"] = None

(***************************************************************************)
(* C12: the cells of self.data are always those of the table the last      *)
(* completed fold assigned, and that table changes only in the step that   *)
(* ends a refresh, to the fold of all three responses of that refresh: no  *)
(* state shows the entries of a part of a cycle.                           *)
(***************************************************************************)
C12_NoPartialTable ==
    [][/\ CellsOf(data') = CellsOf(folded')
       /\ (data' = None) = (folded' = None)
       /\ (folded' # folded \/ CellsOf(data') # CellsOf(data))
             => \E s \in Sensors :
                    /\ Completes(s)
                    /\ api[s] = "cost"
                    /\ folded' = Some(Fold(None, response'[s]).tbl)]_vars

\* a sensor read a filled table while the refresh of the other sensor had
\* one response in hand and was waiting for the next
C12_Witness ==
    \E s \in Sensors, r \in Sensors :
        /\ pc[s] \in InFlight
        /\ response[s]["kwh"] # None
        /\ pc[r] = "throttled"
        /\ now - throttle = 0
        /\ sensor[r]["state"] # None
        /\ data # None /\ CellsOf(data) # {}

(***************************************************************************)
(* C13: a sensor reading its cell, present or absent, leaves self.data as  *)
(* it was: after a throttled call the table is the one before the call,    *)
(* after a completed refresh it is the table the fold assigned.            *)
(***************************************************************************)
C13_ReadLeavesTable ==
    [][\A s \in Sensors :
          /\ (CallStep(s) /\ pc'[s] = "throttled") => data' = data
          /\ Completes(s) => data' = folded']_vars

PostRejected(s) ==
    /\ pc[s] = "post"
    /\ <<pc[s], api[s]>> # <<pc'[s], api'[s]>>
    /\ pc'[s] # "post_body"
    /\ ~(pc'[s] = "raised" /\ exc'[s]["in"] = "async_post")

C15_RejectionTriggersLogin ==
    [][\A s \in Sensors :
          PostRejected(s)
              => \/ token' # token
                 \/ \E r \in Sensors : Issues(r, "login")]_vars

(***************************************************************************)
(* C16: a call is suspended only in the round-trip of its request, and for *)
(* no longer than the timeout: no call is pending while the clock advances *)
(* by more than the timeout, and the end of a round-trip (expiry of the    *)
(* timeout included) never raises.                                         *)
(***************************************************************************)
C16_CallsReturnWithinTimeout ==
    [][\A s \in Sensors :
          /\ now' # now => pc[s] \notin InFlight
          /\ pc[s] \in {"login", "post"} => ~(pc'[s] = "raised" /\ exc'[s]["in"] # "async_update")]_vars

(***************************************************************************)
(* C17: the window of every refresh starts at 00:00:00 of the day of its   *)
(* end: date_from and date_to are in the same calendar day and date_from   *)
(* is not after date_to.                                                   *)
(***************************************************************************)
C17_WindowWithinOneDay ==
    \A s \in Sensors :
        window[s] # None
            => /\ window[s]["date_from"][1] = window[s]["date_to"][1]
               /\ window[s]["date_from"][2] = 0
               /\ window[s]["date_from"][2] <= window[s]["date_to"][2]

(***************************************************************************)
(* C18: once the body of the last endpoint is parsed, the refresh          *)
(* completes and assigns the table, whatever the responses hold (an empty  *)
(* reading list, a final reading without cumulative_value).                *)
(***************************************************************************)
C18_EveryResponseFolds ==
    [][\A s \in Sensors :
          (pc[s] = "post_body" /\ api[s] = "cost" /\ response'[s]["cost"] # None)
              => /\ pc'[s] = "done"
                 /\ folded' = Some(Fold(None, response'[s]).tbl)]_vars

(***************************************************************************)
(* C19: a call that is let through stamps the throttle with the time of    *)
(* the call, and nothing else changes the stamp, however the refresh ends; *)
(* a call is let through only if none was before or more than 30 minutes   *)
(* have passed since the stamp.                                            *)
(***************************************************************************)
StartsCycle(s) == CallStep(s) /\ pc'[s] \in {"login", "post"}

C19_CyclesMoreThanIntervalApart ==
    [][/\ \A s \in Sensors :
              StartsCycle(s)
                  => /\ throttle = -1 \/ now - throttle > 30
                     /\ throttle' = now
       /\ (\A s \in Sensors : ~StartsCycle(s)) => throttle' = throttle]_vars

\* a refresh raised, and 30 minutes after it started the other sensor's
\* call was still throttled
C19_Witness ==
    \E s \in Sensors, r \in Sensors :
        /\ pc[s] = "raised"
        /\ pc[r] = "throttled"
        /\ response[r] = NoResponse
        /\ now - throttle = 30

(***************************************************************************)
(* C20: when self.data is None or empty after the refresh has returned to  *)
(* the sensor, the sensor's _state, 'date' attribute and _icon stay as     *)
(* they were.                                                              *)
(***************************************************************************)
C20_EmptyTableKeepsSensor ==
    [][\A s \in Sensors :
          (Returns(s) /\ (data' = None \/ DOMAIN data'.val = {}))
              => sensor'[s] = sensor[s]]_vars

\* a sensor still shows a value after its own refresh left the table empty
C20_Witness ==
    \E s \in Sensors :
        /\ pc[s] = "done"
        /\ AllAbsent(response[s])
        /\ data # None /\ DOMAIN data.val = {}
        /\ sensor[s]["state"] # None
        /\ sensor[s]["icon"] # None

====
